---- MODULE Spec2Model ----
(***************************************************************************)
(* The timelock-wallet program (programs/timelock-wallet/src/lib.rs) as a  *)
(* state machine.  One action per instruction; an action is the whole      *)
(* instruction: Anchor's account validation (the #[derive(Accounts)]       *)
(* struct, including init_if_needed and close), the handler body, and the  *)
(* runtime's all-or-nothing commit (a failed instruction changes nothing). *)
(***************************************************************************)
EXTENDS Integers, FiniteSets, TLC

VARIABLES
    now,              \* Clock::get()?.unix_timestamp
    wallet,           \* lamports of each identity's system account
    lock_account,     \* the TimeLockAccount PDAs, by address (seed, key)
    user_ata,         \* token balance of each identity's holding account, per mint
    vault_ata,        \* the token account owned by the SPL lock PDA of a key, per mint
    last,             \* the last instruction executed and its result
    deposit_deadline, \* history: latest deadline under which assets now in custody were deposited
    withdrawn,        \* history: a withdraw succeeded on the pair and nothing was created/funded since
    funded            \* history: a fund_sol_lock succeeded on the depositor's live native record

vars ==
    <<now, wallet, lock_account, user_ata, vault_ata, last, deposit_deadline, withdrawn, funded>>

---------------------------------------------------------------------------
(* Bounds of the model *)

MaxTime == 2
MaxAmount == 1
InitTokens == 2

---------------------------------------------------------------------------
(* Identities, mints, addresses *)

Keys == {"D", "E"}
Mints == {"M1", "M2"}
NoKey == "none"

TIME_LOCK_SOL_SEED == "time-lock-sol"
TIME_LOCK_SPL_SEED == "time-lock-spl"
Seeds == {TIME_LOCK_SOL_SEED, TIME_LOCK_SPL_SEED}

\* The derivation with one domain tag for both asset kinds.
FindProgramAddressOneTag(seed, key) ==
    [address |-> <<TIME_LOCK_SOL_SEED, key>>, bump |-> 255]

\* Pubkey::find_program_address(seeds = [seed, key]): the derivation is injective
\* in (seed, key) and returns the canonical bump of that address.
FindProgramAddress(seed, key) ==
    [address |-> <<seed, key>>, bump |-> IF seed = TIME_LOCK_SOL_SEED THEN 255 ELSE 254]

Addresses == Seeds \X Keys

\* lamports an account must hold to be created (payer = initializer, space = ...)
RentExempt == 1

AssetKind == {"Sol", "Spl"}

\* An address that holds no account: owned by the system program, no lamports, no data.
EmptyAccount ==
    [initialized |-> FALSE, lamports |-> 0, initializer |-> NoKey, amount |-> 0,
     unlock_timestamp |-> 0, bump |-> 0, kind |-> "Sol", mint |-> NoKey]

TimeLockAccount ==
    [initialized : BOOLEAN, lamports : Nat, initializer : Keys \cup {NoKey}, amount : Nat,
     unlock_timestamp : Int, bump : Nat, kind : AssetKind, mint : Mints \cup {NoKey}]

EmptyTokenAccount == [initialized |-> FALSE, amount |-> 0, lamports |-> 0]

Ledger ==
    [wallet |-> wallet, lock_account |-> lock_account,
     user_ata |-> user_ata, vault_ata |-> vault_ata]

Outcome(res, L) == [res |-> res, ledger |-> L]

Max(a, b) == IF a >= b THEN a ELSE b

---------------------------------------------------------------------------
(* Guards of the handlers *)

AmountNotNegative(amount) == amount >= 0

AmountPositive(amount) == amount > 0

UnlockNotBeforeNow(unlock_timestamp, clock) == unlock_timestamp >= clock

UnlockInFuture(unlock_timestamp, clock) == unlock_timestamp > clock

TimeLockNotYetExpired(clock, acc) == acc.unlock_timestamp >= clock

TimeLockExpired(clock, acc) == clock >= acc.unlock_timestamp

VaultNotNegative(vault_balance) == vault_balance >= 0

VaultNonEmpty(vault_balance) == vault_balance > 0

---------------------------------------------------------------------------
(* Account constraints *)

\* seeds = [seed, initializer.key()], bump = lock_account.bump
SeedsConstraint(seed, signer, a, bump) ==
    /\ a = FindProgramAddress(seed, signer).address
    /\ bump = FindProgramAddress(seed, signer).bump

\* has_one = initializer
HasOneInitializer(acc, signer) == acc.initializer = signer

\* #[account(init_if_needed, payer = initializer, space, seeds, bump)] lock_account
InitLockAccount(L, seed, payer, a) ==
    IF a # FindProgramAddress(seed, payer).address THEN Outcome("ConstraintSeeds", L)
    ELSE IF L.lock_account[a].initialized THEN Outcome("Ok", L)
    ELSE IF L.wallet[payer] < RentExempt THEN Outcome("InsufficientFunds", L)
    ELSE Outcome("Ok",
            [L EXCEPT !.wallet[payer] = @ - RentExempt,
                      !.lock_account[a] = [EmptyAccount EXCEPT !.initialized = TRUE,
                                                               !.lamports = RentExempt]])

\* #[account(init_if_needed, payer = initializer, associated_token::mint = mint,
\*           associated_token::authority = lock_account)] vault_ata
InitVaultAta(L, payer, k, m) ==
    IF L.vault_ata[k][m].initialized THEN Outcome("Ok", L)
    ELSE IF L.wallet[payer] < RentExempt THEN Outcome("InsufficientFunds", L)
    ELSE Outcome("Ok",
            [L EXCEPT !.wallet[payer] = @ - RentExempt,
                      !.vault_ata[k][m] = [initialized |-> TRUE, amount |-> 0,
                                           lamports |-> RentExempt]])

\* An account taken as it is, with no check that it holds a record.
AccountUnchecked(acc) == TRUE

\* lock_account: Account<'info, TimeLockAccount> without init: the account must
\* exist, owned by the program, and hold a TimeLockAccount.
AccountLoaded(acc) == acc.initialized

\* The constraints left out of the accounts struct.
WithdrawUnconstrained(seed, signer, a, acc) == "Ok"

\* WithdrawSol / WithdrawSpl: seeds, bump = lock_account.bump, has_one = initializer
WithdrawConstraints(seed, signer, a, acc) ==
    IF ~SeedsConstraint(seed, signer, a, acc.bump) THEN "ConstraintSeeds"
    ELSE IF ~HasOneInitializer(acc, signer) THEN "ConstraintHasOne"
    ELSE "Ok"

\* A holding account of any owner.
UserAtaOfAnyone(u, signer) == TRUE

\* constraint = user_ata.owner == initializer.key(); user_ata.mint == mint.key() holds
\* by construction: the holding account passed is the one of (u, m).
UserAtaConstraint(u, signer) == u = signer

\* constraint = vault_ata.owner == lock_account.key(); vault_ata.mint == mint.key()
\* holds by construction: the vault passed is the one of (vk's SPL lock PDA, m).
VaultAtaConstraint(vk, a) == a = FindProgramAddress(TIME_LOCK_SPL_SEED, vk).address

\* A transfer of the amount the record states in place of the amount passed.
SystemTransferRecorded(L, from, to, lamports) ==
    IF L.wallet[from] < L.lock_account[to].amount THEN Outcome("InsufficientFunds", L)
    ELSE Outcome("Ok",
            [L EXCEPT !.wallet[from] = @ - L.lock_account[to].amount,
                      !.lock_account[to].lamports = @ + L.lock_account[to].amount])

\* anchor_lang::system_program::transfer(from: initializer, to: lock_account, lamports)
SystemTransfer(L, from, to, lamports) ==
    IF L.wallet[from] < lamports THEN Outcome("InsufficientFunds", L)
    ELSE Outcome("Ok",
            [L EXCEPT !.wallet[from] = @ - lamports,
                      !.lock_account[to].lamports = @ + lamports])

\* The recorded amount in place of the live balance.
WithdrawRecordedAmount(acc, vault) == acc.amount

\* let vault_balance = ctx.accounts.vault_ata.amount
WithdrawAmount(acc, vault) == vault.amount

\* The lamports leave but the record stays.
DrainAccount(L, a, signer) ==
    [L EXCEPT !.wallet[signer] = @ + L.lock_account[a].lamports,
              !.lock_account[a].lamports = 0]

\* close = initializer: every lamport of the account goes to the initializer and
\* the address is handed back to the system program.
CloseAccount(L, a, signer) ==
    [L EXCEPT !.wallet[signer] = @ + L.lock_account[a].lamports,
              !.lock_account[a] = EmptyAccount]

---------------------------------------------------------------------------
(* Instructions: the result of each one and the ledger it has built when it   *)
(* returns.  Outcome(err, L) of a failed instruction carries the changes made *)
(* before the failure; the runtime discards them (Committed).                 *)

\* Each instruction is written on a ledger L (the accounts as the transaction
\* finds them); the clock is the one of the current slot.
initialize_lock_sol_on(L0, s, a, amount_lamports, unlock_timestamp) ==
    LET acct == InitLockAccount(L0, TIME_LOCK_SOL_SEED, s, a)
        L == acct.ledger
    IN  IF acct.res # "Ok" THEN acct
        ELSE IF ~AmountPositive(amount_lamports) THEN Outcome("InvalidAmount", L)
        ELSE IF ~UnlockInFuture(unlock_timestamp, now) THEN Outcome("UnlockInPast", L)
        ELSE Outcome("Ok",
                [L EXCEPT !.lock_account[a] =
                    [@ EXCEPT !.initializer = s,
                              !.amount = amount_lamports,
                              !.unlock_timestamp = unlock_timestamp,
                              !.bump = FindProgramAddress(TIME_LOCK_SOL_SEED, s).bump,
                              !.kind = "Sol"]])

fund_sol_lock_on(L0, s, a, amount_lamports) ==
    LET acc == L0.lock_account[a]
    IN  IF ~AccountLoaded(acc) THEN Outcome("AccountNotInitialized", L0)
        ELSE IF ~SeedsConstraint(TIME_LOCK_SOL_SEED, s, a, acc.bump)
             THEN Outcome("ConstraintSeeds", L0)
        ELSE SystemTransfer(L0, s, a, amount_lamports)

withdraw_sol_on(L0, s, a) ==
    LET acc == L0.lock_account[a]
        chk == WithdrawConstraints(TIME_LOCK_SOL_SEED, s, a, acc)
    IN  IF ~AccountLoaded(acc) THEN Outcome("AccountNotInitialized", L0)
        ELSE IF chk # "Ok" THEN Outcome(chk, L0)
        ELSE IF acc.kind # "Sol" THEN Outcome("WrongAssetKind", L0)
        ELSE IF ~TimeLockExpired(now, acc) THEN Outcome("TimeLockNotExpired", L0)
        ELSE Outcome("Ok", CloseAccount(L0, a, s))

initialize_lock_spl_on(L0, s, a, m, u, amount, unlock_timestamp) ==
    LET acct == InitLockAccount(L0, TIME_LOCK_SPL_SEED, s, a)
        vlt == InitVaultAta(acct.ledger, s, a[2], m)
        L == vlt.ledger
        W == [L EXCEPT !.lock_account[a] =
                          [@ EXCEPT !.initializer = s,
                                    !.amount = amount,
                                    !.unlock_timestamp = unlock_timestamp,
                                    !.bump = FindProgramAddress(TIME_LOCK_SPL_SEED, s).bump,
                                    !.kind = "Spl",
                                    !.mint = m]]
    IN  IF acct.res # "Ok" THEN acct
        ELSE IF vlt.res # "Ok" THEN vlt
        ELSE IF ~UserAtaConstraint(u, s) THEN Outcome("ConstraintRaw", L)
        ELSE IF ~AmountPositive(amount) THEN Outcome("InvalidAmount", L)
        ELSE IF ~UnlockInFuture(unlock_timestamp, now) THEN Outcome("UnlockInPast", L)
        ELSE IF W.user_ata[u][m] < amount THEN Outcome("TokenInsufficientFunds", W)
        ELSE Outcome("Ok",
                [W EXCEPT !.user_ata[u][m] = @ - amount,
                          !.vault_ata[a[2]][m].amount = @ + amount])

withdraw_spl_on(L0, s, a, m, u, vk) ==
    LET acc == L0.lock_account[a]
        vault == L0.vault_ata[vk][m]
        chk == WithdrawConstraints(TIME_LOCK_SPL_SEED, s, a, acc)
        vault_balance == WithdrawAmount(acc, vault)
    IN  IF ~AccountLoaded(acc) \/ ~vault.initialized
             THEN Outcome("AccountNotInitialized", L0)
        ELSE IF chk # "Ok" THEN Outcome(chk, L0)
        ELSE IF ~UserAtaConstraint(u, s) THEN Outcome("ConstraintRaw", L0)
        ELSE IF ~VaultAtaConstraint(vk, a) THEN Outcome("ConstraintRaw", L0)
        ELSE IF acc.kind # "Spl" THEN Outcome("WrongAssetKind", L0)
        ELSE IF ~TimeLockExpired(now, acc) THEN Outcome("TimeLockNotExpired", L0)
        ELSE IF ~VaultNonEmpty(vault_balance)
             THEN Outcome("InsufficientVaultBalance", L0)
        ELSE IF vault.amount < vault_balance THEN Outcome("TokenInsufficientFunds", L0)
        ELSE Outcome("Ok",
                [L0 EXCEPT !.vault_ata[vk][m].amount = @ - vault_balance,
                           !.user_ata[u][m] = @ + vault_balance])

\* The instructions on the accounts as they are now.
initialize_lock_sol(s, a, amount_lamports, unlock_timestamp) ==
    initialize_lock_sol_on(Ledger, s, a, amount_lamports, unlock_timestamp)

fund_sol_lock(s, a, amount_lamports) == fund_sol_lock_on(Ledger, s, a, amount_lamports)

withdraw_sol(s, a) == withdraw_sol_on(Ledger, s, a)

initialize_lock_spl(s, a, m, u, amount, unlock_timestamp) ==
    initialize_lock_spl_on(Ledger, s, a, m, u, amount, unlock_timestamp)

withdraw_spl(s, a, m, u, vk) == withdraw_spl_on(Ledger, s, a, m, u, vk)

---------------------------------------------------------------------------
(* Actions *)

\* A runtime that keeps what a failed instruction had written.
CommittedPartly(out) == out.ledger

\* The ledger after the instruction: the runtime commits what a successful
\* instruction built and discards every change of a failed one.
Committed(out) == IF out.res = "Ok" THEN out.ledger ELSE Ledger

Commit(out) ==
    /\ wallet' = Committed(out).wallet
    /\ lock_account' = Committed(out).lock_account
    /\ user_ata' = Committed(out).user_ata
    /\ vault_ata' = Committed(out).vault_ata

InitializeLockSol(s, a, amount_lamports, unlock_timestamp) ==
    LET out == initialize_lock_sol(s, a, amount_lamports, unlock_timestamp)
    IN  /\ Commit(out)
        /\ last' = <<"initialize_lock_sol", out.res>>
        /\ UNCHANGED now

FundSolLock(s, a, amount_lamports) ==
    LET out == fund_sol_lock(s, a, amount_lamports)
    IN  /\ Commit(out)
        /\ last' = <<"fund_sol_lock", out.res>>
        /\ UNCHANGED now

WithdrawSol(s, a) ==
    LET out == withdraw_sol(s, a)
    IN  /\ Commit(out)
        /\ last' = <<"withdraw_sol", out.res>>
        /\ UNCHANGED now

InitializeLockSpl(s, a, m, u, amount, unlock_timestamp) ==
    LET out == initialize_lock_spl(s, a, m, u, amount, unlock_timestamp)
    IN  /\ Commit(out)
        /\ last' = <<"initialize_lock_spl", out.res>>
        /\ UNCHANGED now

WithdrawSpl(s, a, m, u, vk) ==
    LET out == withdraw_spl(s, a, m, u, vk)
    IN  /\ Commit(out)
        /\ last' = <<"withdraw_spl", out.res>>
        /\ UNCHANGED now

\* The clock of the ledger advances between instructions.
Tick ==
    /\ now < MaxTime
    /\ now' = now + 1
    /\ last' = <<"tick", "Ok">>
    /\ UNCHANGED <<wallet, lock_account, user_ata, vault_ata>>

Custody == Keys \X ({"native"} \cup Mints)

\* D is the depositor: lamports for the rent of the three accounts the program can
\* create for it at once, InitTokens units of M1 and one unit of M2.  E is another
\* identity, which signs but holds nothing.
Init ==
    /\ now = 0
    /\ wallet = [k \in Keys |-> IF k = "D" THEN 3 * RentExempt ELSE 0]
    /\ lock_account = [a \in Addresses |-> EmptyAccount]
    /\ user_ata = [k \in Keys |-> [m \in Mints |->
                      IF k = "E" THEN 0 ELSE IF m = "M1" THEN InitTokens ELSE 1]]
    /\ vault_ata = [k \in Keys |-> [m \in Mints |-> EmptyTokenAccount]]
    /\ last = <<"none", "Ok">>
    /\ deposit_deadline = [c \in Custody |-> 0]
    /\ withdrawn = [a \in Addresses |-> FALSE]
    /\ funded = [k \in Keys |-> FALSE]

Amounts == 0..MaxAmount
Timestamps == 0..MaxTime

\* Arguments of the calls.  The handler's arguments are enumerated in full for the
\* calls whose accounts are the signer's own; a call that names another account is
\* rejected by the account validation whatever its arguments are, so one
\* representative argument pair is drawn for it.
OwnAccounts(seed, s, a) == a = FindProgramAddress(seed, s).address

InitSolCalls ==
    {c \in Keys \X Addresses \X Amounts \X Timestamps :
        OwnAccounts(TIME_LOCK_SOL_SEED, c[1], c[2]) \/ (c[3] = MaxAmount /\ c[4] = MaxTime)}

FundSolCalls ==
    {c \in Keys \X Addresses \X Amounts :
        OwnAccounts(TIME_LOCK_SOL_SEED, c[1], c[2]) \/ c[3] = MaxAmount}

InitSplCalls ==
    {c \in Keys \X Addresses \X Mints \X Keys \X Amounts \X Timestamps :
        \/ OwnAccounts(TIME_LOCK_SPL_SEED, c[1], c[2]) /\ c[4] = c[1]
        \/ c[5] = MaxAmount /\ c[6] = MaxTime}

\* Every choice of signer, lock account, mint and vault, with the signer's own
\* holding account as destination; and the signer's own lock with another
\* identity's holding account as destination.
WithdrawSplCalls ==
    {c \in Keys \X Addresses \X Mints \X Keys \X Keys :
        \/ c[4] = c[1]
        \/ OwnAccounts(TIME_LOCK_SPL_SEED, c[1], c[2]) /\ c[5] = c[1]}

\* The program.  The two history variables are left at their initial values.
Next ==
    \/ \E c \in InitSolCalls :
          InitializeLockSol(c[1], c[2], c[3], c[4])
          /\ UNCHANGED <<deposit_deadline, withdrawn, funded>>
    \/ \E c \in FundSolCalls :
          FundSolLock(c[1], c[2], c[3]) /\ UNCHANGED <<deposit_deadline, withdrawn, funded>>
    \/ \E s \in Keys, a \in Addresses :
          WithdrawSol(s, a) /\ UNCHANGED <<deposit_deadline, withdrawn, funded>>
    \/ \E c \in InitSplCalls :
          InitializeLockSpl(c[1], c[2], c[3], c[4], c[5], c[6])
          /\ UNCHANGED <<deposit_deadline, withdrawn, funded>>
    \/ \E c \in WithdrawSplCalls :
          WithdrawSpl(c[1], c[2], c[3], c[4], c[5])
          /\ UNCHANGED <<deposit_deadline, withdrawn, funded>>
    \/ Tick /\ UNCHANGED <<deposit_deadline, withdrawn, funded>>

Spec == Init /\ [][Next]_vars

\* Two depositors of equal means: each can pay the rent of two accounts and holds
\* one unit of M1.  Either one native lock with one funded lamport, or one token
\* lock with its vault, is within each one's means, but not both.
InitTwoDepositors ==
    /\ now = 0
    /\ wallet = [k \in Keys |-> 2 * RentExempt]
    /\ lock_account = [a \in Addresses |-> EmptyAccount]
    /\ user_ata = [k \in Keys |-> [m \in Mints |-> IF m = "M1" THEN 1 ELSE 0]]
    /\ vault_ata = [k \in Keys |-> [m \in Mints |-> EmptyTokenAccount]]
    /\ last = <<"none", "Ok">>
    /\ deposit_deadline = [c \in Custody |-> 0]
    /\ withdrawn = [a \in Addresses |-> FALSE]
    /\ funded = [k \in Keys |-> FALSE]

SpecTwoDepositors == InitTwoDepositors /\ [][Next]_vars

---------------------------------------------------------------------------
(* The program observed by two history monitors *)

\* A successful creation or funding on the pair of lock account a.
NotesCreation(a) ==
    withdrawn' = IF last'[2] = "Ok" THEN [withdrawn EXCEPT ![a] = FALSE] ELSE withdrawn

\* A successful withdrawal on the pair of lock account a, emptying custody c.
NotesWithdrawal(a, c) ==
    /\ withdrawn' = IF last'[2] = "Ok" THEN [withdrawn EXCEPT ![a] = TRUE] ELSE withdrawn
    /\ deposit_deadline' =
          IF last'[2] = "Ok" THEN [deposit_deadline EXCEPT ![c] = 0] ELSE deposit_deadline

\* A successful deposit into custody c under the deadline in force at that time.
NotesDeposit(c, deadline, amount) ==
    deposit_deadline' =
        IF last'[2] = "Ok" /\ amount > 0
        THEN [deposit_deadline EXCEPT ![c] = Max(@, deadline)]
        ELSE deposit_deadline

\* A successful fund_sol_lock (v = TRUE) or withdraw_sol (v = FALSE) of depositor k.
NotesFunded(k, v) ==
    funded' = IF last'[2] = "Ok" THEN [funded EXCEPT ![k] = v] ELSE funded

NextH ==
    \/ \E c \in InitSolCalls :
          /\ InitializeLockSol(c[1], c[2], c[3], c[4])
          /\ NotesCreation(c[2])
          /\ UNCHANGED <<deposit_deadline, funded>>
    \/ \E c \in FundSolCalls :
          /\ FundSolLock(c[1], c[2], c[3])
          /\ NotesCreation(c[2])
          /\ NotesDeposit(<<c[2][2], "native">>, lock_account[c[2]].unlock_timestamp, c[3])
          /\ NotesFunded(c[2][2], TRUE)
    \/ \E s \in Keys, a \in Addresses :
          /\ WithdrawSol(s, a)
          /\ NotesWithdrawal(a, <<a[2], "native">>)
          /\ NotesFunded(a[2], FALSE)
    \/ \E c \in InitSplCalls :
          /\ InitializeLockSpl(c[1], c[2], c[3], c[4], c[5], c[6])
          /\ NotesCreation(c[2])
          /\ NotesDeposit(<<c[2][2], c[3]>>, c[6], c[5])
          /\ UNCHANGED funded
    \/ \E c \in WithdrawSplCalls :
          /\ WithdrawSpl(c[1], c[2], c[3], c[4], c[5])
          /\ NotesWithdrawal(c[2], <<c[5], c[3]>>)
          /\ UNCHANGED funded
    \/ Tick /\ UNCHANGED <<deposit_deadline, withdrawn, funded>>

SpecH == Init /\ [][NextH]_vars

---------------------------------------------------------------------------
(* Vocabulary of the properties *)

SolAddr(k) == FindProgramAddress(TIME_LOCK_SOL_SEED, k).address
SplAddr(k) == FindProgramAddress(TIME_LOCK_SPL_SEED, k).address

Live(a) == lock_account[a].initialized

Creations == {"initialize_lock_sol", "initialize_lock_spl"}
Withdrawals == {"withdraw_sol", "withdraw_spl"}
AuthorizationFailure == {"ConstraintSeeds", "ConstraintHasOne"}

\* The balance held in custody: the lamports at the native lock address, the
\* tokens in the vault of a mint.
CustodyBalance(c) ==
    IF c[2] = "native" THEN lock_account[SolAddr(c[1])].lamports
    ELSE vault_ata[c[1]][c[2]].amount

\* Timestamps a caller may pass, past the ones the model's calls draw.
AnyTimestamp == (-1)..(MaxTime + 1)

\* The accounts of a creation call pass Anchor's validation: they are the signer's
\* own, and the signer can pay the rent of those that do not exist yet.
SolAccountsValid(s, a) ==
    /\ a = SolAddr(s)
    /\ Live(a) \/ wallet[s] >= RentExempt

SplAccountsValid(s, a, m, u) ==
    /\ a = SplAddr(s)
    /\ u = s
    /\ wallet[s] >= (IF Live(a) THEN 0 ELSE RentExempt)
                    + (IF vault_ata[s][m].initialized THEN 0 ELSE RentExempt)

---------------------------------------------------------------------------
(* C1..C10 *)

\* C1: an asset deposited under a lock whose deadline was T at deposit time is
\* never released from custody while the clock is below T: every step that
\* lowers a custody balance happens at now >= the deadline of its deposits.
C1_NoReleaseBeforeDepositDeadline ==
    [][\A c \in Custody :
          CustodyBalance(c)' < CustodyBalance(c) => now >= deposit_deadline[c]]_vars

\* C2: a creation operation on a pair whose lock record is live is rejected or
\* leaves the record's amount and unlock_time as they were.
C2_RecreationNeverResets ==
    [][\A a \in Addresses :
          (Live(a) /\ ~withdrawn[a] /\ last'[1] \in Creations)
          => /\ lock_account'[a].amount = lock_account[a].amount
             /\ lock_account'[a].unlock_timestamp = lock_account[a].unlock_timestamp]_vars

\* C3: while now < unlock_time, the depositor's withdraw on an existing record
\* (native, or token naming any of the lock's vaults) fails with
\* TimeLockNotExpired and no balance and no record changes.
C3_EarlyWithdrawRejected ==
    /\ \A s \in Keys :
          LET a == SolAddr(s)
              out == withdraw_sol(s, a)
          IN  (Live(a) /\ lock_account[a].initializer = s
                       /\ now < lock_account[a].unlock_timestamp)
              => (out.res = "TimeLockNotExpired" /\ Committed(out) = Ledger)
    /\ \A s \in Keys, m \in Mints :
          LET a == SplAddr(s)
              out == withdraw_spl(s, a, m, s, s)
          IN  (Live(a) /\ lock_account[a].initializer = s
                       /\ vault_ata[s][m].initialized
                       /\ now < lock_account[a].unlock_timestamp)
              => (out.res = "TimeLockNotExpired" /\ Committed(out) = Ledger)

C3_Witness ==
    /\ last = <<"withdraw_spl", "TimeLockNotExpired">>
    /\ \E k \in Keys, m \in Mints :
          /\ Live(SplAddr(k))
          /\ now < lock_account[SplAddr(k)].unlock_timestamp
          /\ vault_ata[k][m].amount > 0

\* C4: at any now >= unlock_time the depositor's withdraw on a funded lock
\* succeeds and moves the whole live custody balance to the depositor: custody
\* is left at 0 and the depositor gains exactly what custody held.
C4_WithdrawSweepsCustody ==
    /\ \A s \in Keys :
          LET a == SolAddr(s)
              out == withdraw_sol(s, a)
          IN  (Live(a) /\ lock_account[a].initializer = s
                       /\ lock_account[a].lamports > 0
                       /\ now >= lock_account[a].unlock_timestamp)
              => /\ out.res = "Ok"
                 /\ Committed(out).lock_account[a].lamports = 0
                 /\ Committed(out).wallet[s] = wallet[s] + lock_account[a].lamports
    /\ \A s \in Keys, m \in Mints :
          LET a == SplAddr(s)
              out == withdraw_spl(s, a, m, s, s)
          IN  (Live(a) /\ lock_account[a].initializer = s
                       /\ vault_ata[s][m].initialized
                       /\ vault_ata[s][m].amount > 0
                       /\ now >= lock_account[a].unlock_timestamp)
              => /\ out.res = "Ok"
                 /\ Committed(out).vault_ata[s][m].amount = 0
                 /\ Committed(out).user_ata[s][m] = user_ata[s][m] + vault_ata[s][m].amount

C4_Witness ==
    /\ last = <<"withdraw_spl", "Ok">>
    /\ \E k \in Keys, m \in Mints :
          /\ vault_ata[k][m].initialized
          /\ vault_ata[k][m].amount = 0
          /\ user_ata[k][m] > lock_account[SplAddr(k)].amount

\* C5: after a successful withdraw on a pair, no further withdraw on that pair
\* succeeds until a creation or funding operation for the pair has succeeded.
C5_WithdrawSucceedsOnce ==
    [][\A a \in Addresses :
          (last'[1] \in Withdrawals /\ last'[2] = "Ok"
             /\ \/ lock_account'[a] # lock_account[a]
                \/ a[1] = TIME_LOCK_SPL_SEED /\ vault_ata'[a[2]] # vault_ata[a[2]])
          => ~withdrawn[a]]_vars

\* C6: a withdraw, native or token, signed by an identity other than the
\* depositor stored in the record it names fails with an authorization failure,
\* before and after unlock_time, and no balance and no record changes.
C6_OtherIdentityRejected ==
    \A s \in Keys, a \in Addresses :
        (Live(a) /\ lock_account[a].initializer # s)
        => /\ LET out == withdraw_sol(s, a)
              IN  out.res \in AuthorizationFailure /\ Committed(out) = Ledger
           /\ \A m \in Mints, u \in Keys, vk \in Keys :
                 LET out == withdraw_spl(s, a, m, u, vk)
                 IN  /\ out.res # "Ok"
                     /\ Committed(out) = Ledger
                     /\ vault_ata[vk][m].initialized => out.res \in AuthorizationFailure

C6_Witness ==
    /\ last = <<"withdraw_spl", "ConstraintSeeds">>
    /\ \E k \in Keys, m \in Mints :
          /\ Live(SplAddr(k))
          /\ now >= lock_account[SplAddr(k)].unlock_timestamp
          /\ vault_ata[k][m].amount > 0

\* C7: every successful withdrawal, native or token, retires the lock record:
\* no live record exists for the pair afterwards.
C7_WithdrawRetiresRecord ==
    [][\A a \in Addresses :
          (last'[1] \in Withdrawals /\ last'[2] = "Ok"
             /\ \/ lock_account'[a] # lock_account[a]
                \/ a[1] = TIME_LOCK_SPL_SEED /\ vault_ata'[a[2]] # vault_ata[a[2]])
          => ~lock_account'[a].initialized]_vars

\* C7, amended: a successful withdraw_sol retires the record (the address holds
\* no account afterwards); a successful withdraw_spl leaves the token record
\* in place, live and unchanged.
C7_NativeRetiresTokenKeeps ==
    /\ \A s \in Keys, a \in Addresses :
          LET out == withdraw_sol(s, a)
          IN  out.res = "Ok" => Committed(out).lock_account[a] = EmptyAccount
    /\ \A s \in Keys, a \in Addresses, m \in Mints, u \in Keys, vk \in Keys :
          LET out == withdraw_spl(s, a, m, u, vk)
          IN  out.res = "Ok"
              => /\ Committed(out).lock_account = lock_account
                 /\ Committed(out).lock_account[a].initialized

C7_Witness ==
    /\ last = <<"withdraw_sol", "Ok">>
    /\ ~Live(SolAddr("D"))
    /\ Live(SplAddr("D"))
    /\ \E m \in Mints : vault_ata["D"][m].initialized /\ vault_ata["D"][m].amount = 0

\* C8: a creation operation called with amount = 0 fails, with InvalidAmount
\* when its accounts pass validation, and commits nothing: no record appears
\* and no balance moves.  (Every unlock_time is drawn for the calls on the
\* signer's own accounts, one for the calls that name other accounts.)
C8_ZeroAmountRejected ==
    /\ \A s \in Keys, a \in Addresses, t \in AnyTimestamp :
          (a = SolAddr(s) \/ t = MaxTime)
          => LET out == initialize_lock_sol(s, a, 0, t)
             IN  /\ out.res # "Ok"
                 /\ Committed(out) = Ledger
                 /\ SolAccountsValid(s, a) => out.res = "InvalidAmount"
    /\ \A s \in Keys, a \in Addresses, m \in Mints, u \in Keys, t \in AnyTimestamp :
          ((a = SplAddr(s) /\ u = s) \/ t = MaxTime)
          => LET out == initialize_lock_spl(s, a, m, u, 0, t)
             IN  /\ out.res # "Ok"
                 /\ Committed(out) = Ledger
                 /\ SplAccountsValid(s, a, m, u) => out.res = "InvalidAmount"

C8_Witness ==
    /\ last = <<"initialize_lock_sol", "InvalidAmount">>
    /\ \A a \in Addresses : ~Live(a)

\* C9: a creation operation called with unlock_time <= now fails, with
\* UnlockInPast when its accounts pass validation and its amount is positive,
\* and writes nothing; every record a creation writes has unlock_time > now.
\* (Every amount and unlock_time is drawn for the calls on the signer's own
\* accounts, the pair (MaxAmount, now) for the calls that name other accounts.)
C9_UnlockMustBeFuture ==
    /\ \A s \in Keys, a \in Addresses, amt \in Amounts, t \in AnyTimestamp :
          (a = SolAddr(s) \/ (amt = MaxAmount /\ t = now))
          => LET out == initialize_lock_sol(s, a, amt, t)
             IN  /\ t <= now
                    => /\ out.res # "Ok"
                       /\ Committed(out) = Ledger
                       /\ (SolAccountsValid(s, a) /\ amt > 0) => out.res = "UnlockInPast"
                 /\ out.res = "Ok"
                    => /\ Committed(out).lock_account[a].unlock_timestamp = t
                       /\ t > now
    /\ \A s \in Keys, a \in Addresses, m \in Mints, u \in Keys,
          amt \in Amounts, t \in AnyTimestamp :
          ((a = SplAddr(s) /\ u = s) \/ (amt = MaxAmount /\ t = now))
          => LET out == initialize_lock_spl(s, a, m, u, amt, t)
             IN  /\ t <= now
                    => /\ out.res # "Ok"
                       /\ Committed(out) = Ledger
                       /\ (SplAccountsValid(s, a, m, u) /\ amt > 0)
                          => out.res = "UnlockInPast"
                 /\ out.res = "Ok"
                    => /\ Committed(out).lock_account[a].unlock_timestamp = t
                       /\ t > now

C9_Witness ==
    /\ last = <<"initialize_lock_spl", "UnlockInPast">>
    /\ now > 0

\* C10: the depositor's withdraw_spl on an unlocked token record whose custody
\* holding account has balance 0 fails with InsufficientVaultBalance and
\* changes no balance and no record.
C10_EmptyVaultRejected ==
    \A s \in Keys, m \in Mints :
        LET a == SplAddr(s)
            out == withdraw_spl(s, a, m, s, s)
        IN  (Live(a) /\ lock_account[a].initializer = s
                     /\ vault_ata[s][m].initialized
                     /\ vault_ata[s][m].amount = 0
                     /\ now >= lock_account[a].unlock_timestamp)
            => (out.res = "InsufficientVaultBalance" /\ Committed(out) = Ledger)

C10_Witness ==
    /\ last = <<"withdraw_spl", "InsufficientVaultBalance">>
    /\ \E k \in Keys, m \in Mints :
          /\ Live(SplAddr(k))
          /\ now >= lock_account[SplAddr(k)].unlock_timestamp
          /\ vault_ata[k][m].initialized
          /\ vault_ata[k][m].amount = 0

---------------------------------------------------------------------------
(* C11..C19 *)

\* A call of an instruction: op on lock account a, signed by s, with mint m,
\* amount amt and unlock time t where the instruction takes them.  The token
\* calls pass the signer's own holding account and the vault of a's depositor.
Exec(L, c) ==
    CASE c.op = "initialize_lock_sol" -> initialize_lock_sol_on(L, c.s, c.a, c.amt, c.t)
      [] c.op = "fund_sol_lock" -> fund_sol_lock_on(L, c.s, c.a, c.amt)
      [] c.op = "withdraw_sol" -> withdraw_sol_on(L, c.s, c.a)
      [] c.op = "initialize_lock_spl" ->
             initialize_lock_spl_on(L, c.s, c.a, c.m, c.s, c.amt, c.t)
      [] c.op = "withdraw_spl" -> withdraw_spl_on(L, c.s, c.a, c.m, c.s, c.a[2])

\* The ledger after the call on ledger L.
After(L, c) == LET out == Exec(L, c) IN IF out.res = "Ok" THEN out.ledger ELSE L

\* A pair (domain tag, depositor) and the address its lock is derived at.
Pairs == Seeds \X Keys
PairAddr(p) == FindProgramAddress(p[1], p[2]).address

\* The operations on the lock of pair p, called by its depositor with a positive
\* amount and the unlock time MaxTime.
PairCalls(p) ==
    IF p[1] = TIME_LOCK_SOL_SEED
    THEN [op : {"initialize_lock_sol"}, s : {p[2]}, a : {PairAddr(p)}, m : {NoKey},
          amt : 1..MaxAmount, t : {MaxTime}]
         \cup [op : {"fund_sol_lock"}, s : {p[2]}, a : {PairAddr(p)}, m : {NoKey},
               amt : 1..MaxAmount, t : {0}]
         \cup [op : {"withdraw_sol"}, s : {p[2]}, a : {PairAddr(p)}, m : {NoKey},
               amt : {0}, t : {0}]
    ELSE [op : {"initialize_lock_spl"}, s : {p[2]}, a : {PairAddr(p)}, m : Mints,
          amt : 1..MaxAmount, t : {MaxTime}]
         \cup [op : {"withdraw_spl"}, s : {p[2]}, a : {PairAddr(p)}, m : Mints,
               amt : {0}, t : {0}]

\* The lock record and the custody balance of pair p, in ledger L.
PairState(L, p) ==
    IF p[1] = TIME_LOCK_SOL_SEED THEN <<L.lock_account[PairAddr(p)]>>
    ELSE <<L.lock_account[PairAddr(p)], L.vault_ata[p[2]]>>

\* An operation on one pair leaves the record and the custody of every other pair
\* as they were.
OtherPairsUntouched ==
    \A p \in Pairs : \A c \in PairCalls(p) :
        LET L == After(Ledger, c)
        IN  \A q \in Pairs \ {p} : PairState(L, q) = PairState(Ledger, q)

\* The unordered couples of different pairs.
PairCouples ==
    {pq \in Pairs \X Pairs :
        \/ pq[1][1] = TIME_LOCK_SOL_SEED /\ pq[2][1] = TIME_LOCK_SPL_SEED
        \/ pq[1][1] = pq[2][1] /\ pq[1][2] = "D" /\ pq[2][2] = "E"}

\* c1 then c2 and c2 then c1 end in the same ledger; L1 is the ledger after c1
\* alone and L2 the ledger after c2 alone.
Commute(L1, L2, c1, c2) == After(L1, c2) = After(L2, c1)

\* One of the two calls fails for lack of native balance in one of the two orders.
ShortOfLamports(L1, L2, c1, c2) ==
    "InsufficientFunds" \in {Exec(Ledger, c1).res, Exec(L1, c2).res,
                             Exec(Ledger, c2).res, Exec(L2, c1).res}

C12_WithdrawOnlyAfterFunding ==
    [][\A k \in Keys :
          (last'[1] = "withdraw_sol" /\ last'[2] = "Ok"
             /\ Live(SolAddr(k)) /\ ~lock_account'[SolAddr(k)].initialized)
          => funded[k]]_vars

\* Amounts a caller may pass, past the ones the model's calls draw and past
\* every balance a holding account has.
AnyAmount == 0..(InitTokens + 1)

\* C13: initialize_lock_spl is all-or-nothing and never creates an underfunded
\* lock.  On success the token record is written with the call's arguments and
\* exactly amount units have moved from the depositor's holding account to the
\* vault, which then holds at least the recorded amount.  If the holding account
\* has fewer than amount units the call fails (with the token program's
\* insufficient-funds error when it gets as far as the transfer), no record is
\* written or changed and no balance moves.
C13_TokenLockAllOrNothing ==
    \A s \in Keys, a \in Addresses, m \in Mints, u \in Keys,
       amt \in AnyAmount, t \in AnyTimestamp :
        ((a = SplAddr(s) /\ u = s) \/ (amt = MaxAmount /\ t = MaxTime))
        => LET out == initialize_lock_spl(s, a, m, u, amt, t)
               L == Committed(out)
           IN  /\ out.res = "Ok"
                  => /\ L.lock_account[a] =
                           [initialized |-> TRUE,
                            lamports |-> RentExempt,
                            initializer |-> s, amount |-> amt, unlock_timestamp |-> t,
                            bump |-> FindProgramAddress(TIME_LOCK_SPL_SEED, s).bump,
                            kind |-> "Spl", mint |-> m]
                     /\ L.user_ata = [user_ata EXCEPT ![s][m] = @ - amt]
                     /\ L.vault_ata[s][m].amount = vault_ata[s][m].amount + amt
                     /\ L.vault_ata[s][m].amount >= L.lock_account[a].amount
                     /\ \A k \in Keys, n \in Mints :
                           <<k, n>> # <<s, m>>
                           => L.vault_ata[k][n].amount = vault_ata[k][n].amount
               /\ user_ata[u][m] < amt
                  => /\ out.res # "Ok"
                     /\ L = Ledger
                     /\ (SplAccountsValid(s, a, m, u) /\ t > now)
                        => out.res = "TokenInsufficientFunds"

\* A creation failed at the transfer, on a lock that an earlier creation funded.
C13_Witness ==
    /\ last = <<"initialize_lock_spl", "TokenInsufficientFunds">>
    /\ \E k \in Keys, m \in Mints :
          /\ Live(SplAddr(k))
          /\ vault_ata[k][m].amount > 0
          /\ user_ata[k][m] = 0

\* Lamports a caller may pass, past every balance a wallet has.
AnyLamports == 0..(3 * RentExempt + 1)

\* C14: fund_sol_lock by the depositor on a registered native record succeeds
\* for every amount_lamports the depositor can pay, whatever the record's amount
\* and whether the clock is before or after unlock_timestamp; it moves exactly
\* amount_lamports from the depositor to the lock account and changes nothing
\* else, no field of the record included.  An amount the depositor cannot pay
\* is rejected and nothing changes.
C14_FundMovesExactAmount ==
    \A s \in Keys, amt \in AnyLamports :
        LET a == SolAddr(s)
            out == fund_sol_lock(s, a, amt)
        IN  Live(a)
            => /\ amt <= wallet[s]
                  => /\ out.res = "Ok"
                     /\ Committed(out) =
                           [Ledger EXCEPT !.wallet[s] = @ - amt,
                                          !.lock_account[a].lamports = @ + amt]
               /\ amt > wallet[s]
                  => /\ out.res = "InsufficientFunds"
                     /\ Committed(out) = Ledger

\* A fund succeeded after the unlock time and custody holds another amount than
\* the record states.
C14_Witness ==
    /\ last = <<"fund_sol_lock", "Ok">>
    /\ \E k \in Keys :
          /\ Live(SolAddr(k))
          /\ now >= lock_account[SolAddr(k)].unlock_timestamp
          /\ lock_account[SolAddr(k)].lamports - RentExempt > lock_account[SolAddr(k)].amount

\* C15: a fund_sol_lock called by a depositor who has no native lock record is
\* accepted and moves the lamports to the lock address.
C15_FundWithoutRecordAccepted ==
    \A s \in Keys, amt \in AnyLamports :
        LET a == SolAddr(s)
            out == fund_sol_lock(s, a, amt)
        IN  (~Live(a) /\ amt <= wallet[s])
            => /\ out.res = "Ok"
               /\ Committed(out).wallet[s] = wallet[s] - amt
               /\ Committed(out).lock_account[a].lamports = lock_account[a].lamports + amt

\* C15, amended: a fund_sol_lock called by a depositor who has no native lock
\* record (none registered yet, or closed by withdraw_sol) is rejected with
\* AccountNotInitialized, whatever the amount, and no balance moves.
C15_FundWithoutRecordRejected ==
    \A s \in Keys, amt \in AnyLamports :
        LET a == SolAddr(s)
            out == fund_sol_lock(s, a, amt)
        IN  ~Live(a) => (out.res = "AccountNotInitialized" /\ Committed(out) = Ledger)

\* A fund was rejected on a native record that a withdraw_sol had closed.
C15_Witness ==
    /\ last = <<"fund_sol_lock", "AccountNotInitialized">>
    /\ \E k \in Keys : withdrawn[SolAddr(k)] /\ ~Live(SolAddr(k)) /\ wallet[k] > 0

\* C16: in every reachable state a live record of kind Spl has its mint set and
\* a live record of kind Sol has it unset, also after creation calls repeated
\* on an existing record.
C16_MintSetIffToken ==
    \A a \in Addresses :
        Live(a) => (lock_account[a].kind = "Spl" <=> lock_account[a].mint # NoKey)

\* A token record re-created for another mint than the one its funded vault holds.
C16_Witness ==
    /\ last = <<"initialize_lock_spl", "Ok">>
    /\ \E k \in Keys, m \in Mints :
          /\ Live(SplAddr(k))
          /\ lock_account[SplAddr(k)].kind = "Spl"
          /\ lock_account[SplAddr(k)].mint \in Mints \ {m}
          /\ vault_ata[k][m].amount > 0

\* C17: withdraw_spl releases balance only from the vault of the mint recorded
\* in the lock: a withdraw_spl that names another mint than the recorded one
\* moves no balance.
C17_WithdrawOnlyRecordedMint ==
    \A s \in Keys, a \in Addresses, m \in Mints, u \in Keys, vk \in Keys :
        (Live(a) /\ lock_account[a].mint # m)
        => LET L == Committed(withdraw_spl(s, a, m, u, vk))
           IN  L.user_ata = user_ata /\ L.vault_ata = vault_ata

\* The kind of the records stored under a seed.
KindOf(seed) == IF seed = TIME_LOCK_SOL_SEED THEN "Sol" ELSE "Spl"

\* C18: in every reachable state the record at a native lock address has kind
\* Sol and the record at a token lock address has kind Spl, so the kind of a
\* record never changes; and no withdraw_sol or withdraw_spl, whatever accounts
\* it names, fails with WrongAssetKind.
C18_KindFixedBySeed ==
    /\ \A a \in Addresses : Live(a) => lock_account[a].kind = KindOf(a[1])
    /\ last[2] # "WrongAssetKind"
    /\ \A s \in Keys, a \in Addresses :
          /\ withdraw_sol(s, a).res # "WrongAssetKind"
          /\ \A m \in Mints, u \in Keys, vk \in Keys :
                withdraw_spl(s, a, m, u, vk).res # "WrongAssetKind"

\* A withdraw_sol was rejected while the signer holds a record of each kind.
C18_Witness ==
    /\ last = <<"withdraw_sol", "ConstraintSeeds">>
    /\ \E k \in Keys :
          /\ Live(SolAddr(k)) /\ lock_account[SolAddr(k)].kind = "Sol"
          /\ Live(SplAddr(k)) /\ lock_account[SplAddr(k)].kind = "Spl"

RECURSIVE VaultLamports(_, _, _)
\* The lamports held by the vaults of depositor k for the mints ms, in ledger L.
VaultLamports(L, k, ms) ==
    IF ms = {} THEN 0
    ELSE LET m == CHOOSE x \in ms : TRUE
         IN  L.vault_ata[k][m].lamports + VaultLamports(L, k, ms \ {m})

\* The native balance of depositor k and of the accounts of k's locks (the
\* native lock account, the token lock account and its vaults), in ledger L.
NativeTotal(L, k) ==
    L.wallet[k] + L.lock_account[SolAddr(k)].lamports
                + L.lock_account[SplAddr(k)].lamports + VaultLamports(L, k, Mints)

\* The tokens of mint m of depositor k and of the vault of k's lock, in ledger L.
TokenTotal(L, k, m) == L.user_ata[k][m] + L.vault_ata[k][m].amount

\* C19: for each depositor and each asset, the depositor's balance plus the
\* balance held by that depositor's lock accounts is the same before and after
\* every operation, successful or failed: nothing is created, destroyed or
\* sent to another party.
C19_AssetsConserved ==
    [][\/ UNCHANGED <<wallet, lock_account, user_ata, vault_ata>>
       \/ \A k \in Keys :
             /\ NativeTotal(Ledger', k) = NativeTotal(Ledger, k)
             /\ \A m \in Mints : TokenTotal(Ledger', k, m) = TokenTotal(Ledger, k, m)]_vars

\* A token withdrawal succeeded for one depositor while the other holds a funded
\* native lock.
C19_Witness ==
    /\ last = <<"withdraw_spl", "Ok">>
    /\ \E k \in Keys :
          /\ Live(SolAddr(k))
          /\ lock_account[SolAddr(k)].lamports > RentExempt
          /\ \E j \in Keys \ {k}, m \in Mints :
                vault_ata[j][m].initialized /\ user_ata[j][m] > 0

====
